---- MODULE Spec2Model ----
(***************************************************************************)
(* Model of the containment control plane:                                 *)
(*   - Dynamic Constraint Scheduler  (utility/dynamic_constraint_scheduler) *)
(*   - FSMU Halt Orchestrator        (core/orchestration/fsmu_halt_...)     *)
(*   - Atomic Snapshot Generator     (components/system_core/ASG_...)       *)
(* Each subsystem has its own specification (SpecDCS, SpecHalt, SpecASG);   *)
(* SpecShared runs the scheduler's methods statement by statement against   *)
(* readers holding shared borrows; SpecEngine runs the CompilerEngine loop  *)
(* (utility/constraint_management/async_compiler) between its channels.     *)
(* the variables of the other subsystems stay at their initial value.       *)
(***************************************************************************)
EXTENDS Integers, Sequences, FiniteSets, TLC

VARIABLES
    \* --- DynamicConstraintScheduler fields ---
    active_set_id,      \* ConstraintSetId of the active set
    constraint_cache,   \* HashMap<ConstraintSetId, Arc<CompiledConstraintBlock>>
    active_block_ref,   \* Arc<CompiledConstraintBlock>
    nextArc,            \* next fresh Arc allocation (pointer identity)
    dcsLast,            \* last scheduler call and what it returned
    \* --- FSMUHaltOrchestrator: one invocation of execute_halt_sequence ---
    policy,             \* FSMUHaltPolicy (policy_id, halt_context)
    halt_pc,            \* "Idle" | "Isolating" | "Phase2" | "Returned"
    now,                \* ms elapsed since start_time (Instant::now at the first poll)
    agent,              \* per HaltAgent operation: state, result, number of invocations
    isolation_duration, \* start_time.elapsed().as_millis() after isolation
    violations,         \* SystemLogger::record_violation calls, in order
    halt_result,        \* what execute_halt_sequence returned
    halt_log,           \* agent operations started / completed, in order
    \* --- Atomic Snapshot Generator: the last generate_rscm_snapshot call ---
    asg_called,         \* whether generate_rscm_snapshot has been called
    asg_env,            \* what SystemCaptureAPI, the hasher and the clock answered
    asg_out,            \* the call's result, the hasher's input, the calls it made
    \* --- the scheduler shared between one writer and several readers ---
    switch_pc,          \* position inside switch_active_set: "idle" | "ref_assigned"
    switch_call,        \* the latest successful switch_active_set: argument, old and new Arc
    ref_origin,         \* the cache key active_block_ref was cloned from
    readers,            \* per reader: its &self borrow and what it has read through it
    \* --- CompilerEngine and its two channels ---
    task_queue,         \* mpsc::channel(task_buffer_size): tasks sent, not yet received
    handle_alive,       \* whether a task_sender (CompilerServiceHandle) still exists
    engine_pc,          \* "recv" | "compiling" | "send" | "terminated"
    engine_task,        \* the task the loop body is working on
    compilation_result, \* what spawn_blocking(..).await.unwrap_or_else(..) gave
    result_channel,     \* (set_id, result) messages sent, not yet received
    result_receiver_alive, \* whether the receiving end of result_sender exists
    accepted,           \* history: tasks the queue accepted, in arrival order
    dequeued,           \* history: tasks recv() returned, in order
    published,          \* history: messages result_sender.send delivered to the channel
    delivered,          \* history: messages the owner received
    \* --- a caller of the associated function compile_constraints ---
    compile_call        \* the latest call: its arguments and what it returned

dcsVars == <<active_set_id, constraint_cache, active_block_ref, nextArc, dcsLast>>
haltVars == <<policy, halt_pc, now, agent, isolation_duration, violations,
              halt_result, halt_log>>

asgVars == <<asg_called, asg_env, asg_out>>
sharedVars == <<switch_pc, switch_call, ref_origin, readers>>
engineVars == <<task_queue, handle_alive, engine_pc, engine_task, compilation_result,
                result_channel, result_receiver_alive,
                accepted, dequeued, published, delivered>>

compileVars == <<compile_call>>

vars == <<dcsVars, haltVars, asgVars, sharedVars, engineVars, compileVars>>
otherThanDcs == <<haltVars, asgVars, sharedVars, engineVars, compileVars>>
otherThanHalt == <<dcsVars, asgVars, sharedVars, engineVars, compileVars>>
otherThanAsg == <<dcsVars, haltVars, sharedVars, engineVars, compileVars>>
otherThanShared == <<haltVars, asgVars, engineVars, compileVars>>
otherThanEngine == <<dcsVars, haltVars, asgVars, sharedVars, compileVars>>
otherThanCompile == <<haltVars, asgVars, sharedVars, engineVars>>

-----------------------------------------------------------------------------
(* Bounds of the model *)

MaxSetId == 2
MaxVersion == 2
MaxArcs == 4
MaxSla == 1         \* isolation_sla_ms ranges over 0..MaxSla
MaxTimeout == 3     \* total_timeout_ms ranges over 1..MaxTimeout
MaxDumpLen == 2     \* volatile memory dumps of 0..MaxDumpLen bytes
MaxTraceLen == 1    \* stack traces of 0..MaxTraceLen bytes
MaxReaders == 2     \* readers sharing the scheduler
MaxTasks == 3       \* tasks ever sent to the compiler service
task_buffer_size == 2    \* capacity of the task queue (spawn_service argument)
result_buffer_size == 1  \* capacity of the result channel (made by the caller)

SetIds == 1..MaxSetId
Versions == 0..MaxVersion

-----------------------------------------------------------------------------
(* Dynamic Constraint Scheduler *)

ACVM_DEFINITION == "placeholder_acvm_def"
GAX_POLICIES == "placeholder_gax_policies"

\* str::is_empty
is_empty(s) == s = ""

CompiledConstraintBlock(version) ==
    [compilation_version |-> version,
     gax_ii_boundary_checks |-> <<>>,
     gax_iii_input_integrity |-> <<>>]

\* mutant: only the definition text is examined
compile_constraints_definition_only(acvm_def, gax_policies, version) ==
    IF is_empty(acvm_def)
    THEN [ok |-> FALSE, err |-> "CompilationFailed"]
    ELSE [ok |-> TRUE, block |-> CompiledConstraintBlock(version)]

\* Result<CompiledConstraintBlock, ConstraintError>
compile_constraints(acvm_def, gax_policies, version) ==
    IF is_empty(acvm_def) \/ is_empty(gax_policies)
    THEN [ok |-> FALSE, err |-> "CompilationFailed"]
    ELSE [ok |-> TRUE, block |-> CompiledConstraintBlock(version)]

\* Arc::new(block): a fresh allocation holding the block
ArcNew(ptr, block) == [arc |-> ptr, block |-> block]

\* The blocks a caller can hand to inject_compiled_set
InjectableBlocks == {CompiledConstraintBlock(v) : v \in Versions}

\* the values handed to execute_s02_s06_integrity_sweep (CsrSnapshot = Vec<u8>)
CsrSnapshots == {<<>>, <<0>>, <<255>>}

\* a scheduler call as the caller sees it: arguments and returned value
DcsCall(op, id, version, data, ret) ==
    [op |-> op, id |-> id, version |-> version, data |-> data, ret |-> ret]

\* DynamicConstraintScheduler::initialize(current_state_id)
initialize(current_state_id) ==
    LET initial_block == compile_constraints(ACVM_DEFINITION, GAX_POLICIES, 1)
        initial_arc == ArcNew(1, initial_block.block)
    IN  /\ initial_block.ok
        /\ active_set_id = current_state_id
        /\ constraint_cache = (current_state_id :> initial_arc)
        /\ active_block_ref = initial_arc
        /\ nextArc = 2
        /\ dcsLast = DcsCall("initialize", current_state_id, 1, <<>>, "Ok")

\* DynamicConstraintScheduler::active_constraints
active_constraints == active_block_ref.block

\* mutant: the map is rebuilt around the new entry
CacheInsertEvicting(cache, set_id, arc_block) == (set_id :> arc_block)

\* The cache after HashMap::insert(set_id, arc_block)
CacheInsert(cache, set_id, arc_block) ==
    [k \in (DOMAIN cache) \cup {set_id} |->
        IF k = set_id THEN arc_block ELSE cache[k]]

\* mutant: an inject into the active set also republishes the active reference
inject_compiled_set_republishing(set_id, block) ==
    /\ nextArc <= MaxArcs
    /\ constraint_cache' = CacheInsert(constraint_cache, set_id, ArcNew(nextArc, block))
    /\ nextArc' = nextArc + 1
    /\ dcsLast' = DcsCall("inject_compiled_set", set_id, block.compilation_version, <<>>, "Ok")
    /\ active_block_ref' = IF set_id = active_set_id THEN ArcNew(nextArc, block)
                                                     ELSE active_block_ref
    /\ UNCHANGED active_set_id
    /\ UNCHANGED otherThanDcs

\* DynamicConstraintScheduler::inject_compiled_set(set_id, block)
inject_compiled_set(set_id, block) ==
    /\ nextArc <= MaxArcs
    /\ constraint_cache' = CacheInsert(constraint_cache, set_id, ArcNew(nextArc, block))
    /\ nextArc' = nextArc + 1
    /\ dcsLast' = DcsCall("inject_compiled_set", set_id, block.compilation_version, <<>>, "Ok")
    /\ UNCHANGED <<active_set_id, active_block_ref>>
    /\ UNCHANGED otherThanDcs

\* DynamicConstraintScheduler::switch_active_set(new_set_id), set cached
switch_active_set_found(new_set_id) ==
    /\ new_set_id \in DOMAIN constraint_cache
    /\ active_block_ref' = constraint_cache[new_set_id]
    /\ active_set_id' = new_set_id
    /\ dcsLast' = DcsCall("switch_active_set", new_set_id, 0, <<>>, "Ok")
    /\ UNCHANGED <<constraint_cache, nextArc>>
    /\ UNCHANGED otherThanDcs

\* mutant: the id is recorded before the lookup result is examined
switch_active_set_missing_keeps_id(new_set_id) ==
    /\ new_set_id \notin DOMAIN constraint_cache
    /\ dcsLast' = DcsCall("switch_active_set", new_set_id, 0, <<>>, "MissingActiveSet")
    /\ active_set_id' = new_set_id
    /\ UNCHANGED <<constraint_cache, active_block_ref, nextArc>>
    /\ UNCHANGED otherThanDcs

\* DynamicConstraintScheduler::switch_active_set(new_set_id), set not cached
switch_active_set_missing(new_set_id) ==
    /\ new_set_id \notin DOMAIN constraint_cache
    /\ dcsLast' = DcsCall("switch_active_set", new_set_id, 0, <<>>, "MissingActiveSet")
    /\ UNCHANGED <<active_set_id, constraint_cache, active_block_ref, nextArc>>
    /\ UNCHANGED otherThanDcs

\* mutant: the sweep examines the input and rejects a snapshot holding 0xFF
SweepResultInspectingInput(snapshot) ==
    IF active_constraints.compilation_version = 0
          \/ \E i \in 1..Len(snapshot) : snapshot[i] = 255
    THEN "PolicyViolation" ELSE "Ok"

\* mutant: the sweep of an empty input passes without looking at the block
SweepResultFailOpen(snapshot) ==
    IF snapshot # <<>> /\ active_constraints.compilation_version = 0
    THEN "PolicyViolation" ELSE "Ok"

\* the body of execute_s02_s06_integrity_sweep: the input is not examined
SweepResult(snapshot) ==
    IF active_constraints.compilation_version = 0 THEN "PolicyViolation" ELSE "Ok"

\* DynamicConstraintScheduler::execute_s02_s06_integrity_sweep(_snapshot)
execute_s02_s06_integrity_sweep(snapshot) ==
    /\ dcsLast' = DcsCall("execute_s02_s06_integrity_sweep", active_set_id, 0, snapshot,
                          SweepResult(snapshot))
    /\ UNCHANGED <<active_set_id, constraint_cache, active_block_ref, nextArc>>
    /\ UNCHANGED otherThanDcs


\* the texts callers pass to compile_constraints
DefinitionTexts == {"", ACVM_DEFINITION}
PolicyTexts == {"", GAX_POLICIES}

CompileCall(called, acvm_def, gax_policies, version, ret) ==
    [called |-> called, acvm_def |-> acvm_def, gax_policies |-> gax_policies,
     version |-> version, ret |-> ret]

\* no call of compile_constraints has been made
CompileInit ==
    compile_call = CompileCall(FALSE, "", "", 0, [ok |-> FALSE, err |-> "None"])

\* a caller (the daemon, a test) calls
\* DynamicConstraintScheduler::compile_constraints(acvm_def, gax_policies, version);
\* the function has no self parameter
compile_constraints_called(acvm_def, gax_policies, version) ==
    /\ compile_call' = CompileCall(TRUE, acvm_def, gax_policies, version,
                                   compile_constraints(acvm_def, gax_policies, version))
    /\ UNCHANGED dcsVars
    /\ UNCHANGED otherThanCompile

DcsNext ==
    \/ \E id \in SetIds, b \in InjectableBlocks : inject_compiled_set(id, b)
    \/ \E id \in SetIds : switch_active_set_found(id)
    \/ \E id \in SetIds : switch_active_set_missing(id)
    \/ \E snapshot \in CsrSnapshots : execute_s02_s06_integrity_sweep(snapshot)

\* the blocks a writer injects: one the sweep rejects, one it accepts
SharedBlocks == {CompiledConstraintBlock(v) : v \in {0, MaxVersion}}

\* the scheduler in use while compile_constraints is called around it
CompileNext ==
    \/ \E acvm_def \in DefinitionTexts, gax_policies \in PolicyTexts, version \in Versions :
            compile_constraints_called(acvm_def, gax_policies, version)
    \/ \E id \in SetIds, b \in SharedBlocks : inject_compiled_set(id, b)
    \/ \E id \in SetIds : switch_active_set_found(id)

-----------------------------------------------------------------------------
(* The scheduler shared between a writer and readers.  switch_active_set   *)
(* and inject_compiled_set take &mut self, active_constraints takes &self  *)
(* and returns a reference that borrows from self; the borrow rules admit  *)
(* one exclusive borrow or any number of shared ones, never both.          *)

Readers == 1..MaxReaders

NoArc == ArcNew(0, CompiledConstraintBlock(0))

\* a reader without a borrow
ReaderIdle == [st |-> "idle", id |-> 0, origin |-> 0, first |-> NoArc, second |-> NoArc]

SharedInit(current_state_id) ==
    /\ switch_pc = "idle"
    /\ switch_call = [new_set_id |-> current_state_id,
                      old |-> ArcNew(1, CompiledConstraintBlock(1)),
                      new |-> ArcNew(1, CompiledConstraintBlock(1))]
    /\ ref_origin = current_state_id
    /\ readers = [r \in Readers |-> ReaderIdle]

\* mutant: a shared borrow is handed out while switch_active_set is running
SharedBorrowAllowedDuringSwitch == TRUE

\* &self can be taken: no &mut self call is in progress
SharedBorrowAllowed == switch_pc = "idle"

\* &mut self can be taken: no call in progress, no shared borrow alive
ExclusiveBorrowAllowed ==
    /\ switch_pc = "idle"
    /\ \A r \in Readers : readers[r].st = "idle"

\* a reader calls active_constraints(): it borrows the scheduler and reads
\* the first fields of the block (and the id next to it)
reader_borrow(r) ==
    /\ SharedBorrowAllowed
    /\ readers[r].st = "idle"
    /\ readers' = [readers EXCEPT ![r] =
                     [st |-> "borrowed", id |-> active_set_id, origin |-> ref_origin,
                      first |-> active_block_ref, second |-> NoArc]]
    /\ UNCHANGED <<switch_pc, switch_call, ref_origin>>
    /\ UNCHANGED <<dcsVars, otherThanShared>>

\* the reader reads the remaining fields of active_constraints()
reader_read(r) ==
    /\ readers[r].st = "borrowed"
    /\ readers' = [readers EXCEPT ![r].st = "read", ![r].second = active_block_ref]
    /\ UNCHANGED <<switch_pc, switch_call, ref_origin>>
    /\ UNCHANGED <<dcsVars, otherThanShared>>

\* the reader's borrow ends
reader_release(r) ==
    /\ readers[r].st = "read"
    /\ readers' = [readers EXCEPT ![r] = ReaderIdle]
    /\ UNCHANGED <<switch_pc, switch_call, ref_origin>>
    /\ UNCHANGED <<dcsVars, otherThanShared>>

\* switch_active_set, first statement: the lookup succeeds and the cloned
\* Arc is assigned to active_block_ref
switch_assign_ref(new_set_id) ==
    /\ ExclusiveBorrowAllowed
    /\ new_set_id \in DOMAIN constraint_cache
    /\ active_block_ref' = constraint_cache[new_set_id]
    /\ ref_origin' = new_set_id
    /\ switch_call' = [new_set_id |-> new_set_id, old |-> active_block_ref,
                       new |-> constraint_cache[new_set_id]]
    /\ switch_pc' = "ref_assigned"
    /\ UNCHANGED <<active_set_id, constraint_cache, nextArc, dcsLast, readers>>
    /\ UNCHANGED otherThanShared

\* switch_active_set, second statement: the id is assigned and Ok returned
switch_assign_id ==
    /\ switch_pc = "ref_assigned"
    /\ active_set_id' = switch_call.new_set_id
    /\ dcsLast' = DcsCall("switch_active_set", switch_call.new_set_id, 0, <<>>, "Ok")
    /\ switch_pc' = "idle"
    /\ UNCHANGED <<constraint_cache, active_block_ref, nextArc>>
    /\ UNCHANGED <<switch_call, ref_origin, readers>>
    /\ UNCHANGED otherThanShared

\* switch_active_set of a set that is not cached, as one &mut self call
shared_switch_missing(new_set_id) ==
    /\ ExclusiveBorrowAllowed
    /\ switch_active_set_missing(new_set_id)

\* inject_compiled_set as one &mut self call
shared_inject(set_id, block) ==
    /\ ExclusiveBorrowAllowed
    /\ inject_compiled_set(set_id, block)

SharedNext ==
    \/ \E r \in Readers : reader_borrow(r)
    \/ \E r \in Readers : reader_read(r)
    \/ \E r \in Readers : reader_release(r)
    \/ \E id \in SetIds : switch_assign_ref(id)
    \/ switch_assign_id
    \/ \E id \in SetIds : shared_switch_missing(id)
    \/ \E id \in SetIds, b \in SharedBlocks : shared_inject(id, b)

-----------------------------------------------------------------------------
(* FSMU Halt Orchestrator *)

AgentOps == {"isolation", "sanitization", "forensics"}

\* HaltError: kind is the variant; text the String payload (a sequence of
\* fragments); ms the u64 payload of Timeout
HaltErr(kind, text) == [kind |-> kind, text |-> text, ms |-> 0]
TimeoutErr(ms) == [kind |-> "Timeout", text |-> <<>>, ms |-> ms]
NoErr == [kind |-> "None", text |-> <<>>, ms |-> 0]

\* Result<(), HaltError>
Ok == [ok |-> TRUE, err |-> NoErr]
Err(e) == [ok |-> FALSE, err |-> e]

\* u64 Display: decimal digits, most significant first
Digit(d) == <<"0", "1", "2", "3", "4", "5", "6", "7", "8", "9">>[d + 1]
RECURSIVE ToDecimal(_)
ToDecimal(n) == IF n < 10 THEN <<Digit(n)>> ELSE ToDecimal(n \div 10) \o <<Digit(n % 10)>>

\* HaltError's Display (the #[error(...)] attributes): e.to_string()
to_string(e) ==
    CASE e.kind = "IsolationFailed" -> <<"Isolation phase failed: ">> \o e.text
      [] e.kind = "ForensicsFailed" -> <<"Forensics collection failed: ">> \o e.text
      [] e.kind = "SanitizationFailed" -> <<"Memory sanitization failed: ">> \o e.text
      [] e.kind = "Timeout" ->
            <<"The overall halt sequence timed out after ">> \o ToDecimal(e.ms) \o <<"ms.">>

\* Every error value an agent operation can return: the trait's methods return
\* Result<(), HaltError>, so any variant
AgentErrors ==
    {HaltErr("IsolationFailed", <<"agent">>), HaltErr("ForensicsFailed", <<"agent">>),
     HaltErr("SanitizationFailed", <<"agent">>), TimeoutErr(MaxTimeout + 6)}
AgentResults == {Ok} \cup {Err(e) : e \in AgentErrors}

\* FSMUHaltPolicy values exercised
Policies ==
    {[policy_id |-> "P1",
      halt_context |-> [isolation_sla_ms |-> sla, total_timeout_ms |-> tmo]] :
        sla \in 0..MaxSla, tmo \in 1..MaxTimeout}

NotStarted == [st |-> "NotStarted", res |-> Ok, calls |-> 0]

HaltInitWith(p) ==
    /\ policy = p
    /\ halt_pc = "Idle"
    /\ now = 0
    /\ agent = [op \in AgentOps |-> NotStarted]
    /\ isolation_duration = 0
    /\ violations = <<>>
    /\ halt_result = Ok
    /\ halt_log = <<>>

\* the policy held while another subsystem is exercised
IdlePolicy == [policy_id |-> "P1",
               halt_context |-> [isolation_sla_ms |-> 0, total_timeout_ms |-> 1]]

\* the agent operation is invoked (its future is polled for the first time)
Started(ag, op) == [ag EXCEPT ![op] = [st |-> "Running", res |-> Ok, calls |-> @.calls + 1]]
\* the agent operation's future resolved with r
Finished(ag, op, r) == [ag EXCEPT ![op] = [@ EXCEPT !.st = "Done", !.res = r]]

\* tokio::time::timeout: the Delay of total_timeout_ms has elapsed
TimerElapsed == now >= policy.halt_context.total_timeout_ms
\* the inner future (run_sequence_internal) has not resolved yet
InFlight == halt_pc \in {"Isolating", "Phase2"}

\* execute_halt_sequence is called: timeout(..) polls run_sequence_internal, which
\* takes start_time and invokes execute_isolation_mandate
execute_halt_sequence ==
    /\ halt_pc = "Idle"
    /\ halt_pc' = "Isolating"
    /\ agent' = Started(agent, "isolation")
    /\ halt_log' = Append(halt_log, "isolation_start")
    /\ UNCHANGED <<policy, now, isolation_duration, violations, halt_result>>
    /\ UNCHANGED otherThanHalt

\* wall-clock time passes while the sequence is in flight
Tick ==
    /\ InFlight
    /\ ~TimerElapsed
    /\ now' = now + 1
    /\ UNCHANGED <<policy, halt_pc, agent, isolation_duration, violations,
                   halt_result, halt_log>>
    /\ UNCHANGED otherThanHalt

\* mutant: the isolation error is logged and the sequence carries on
IsolationFatalSwallowed(r) == FALSE

\* `.await.map_err(..)?` on the isolation result: an Err leaves the function
IsolationFatal(r) == ~r.ok

\* what the `?` after map_err returns for an isolation error e (the closure logs
\* and yields e itself)
IsolationError(e) == Err(e)

\* mutant: a failed isolation is attempted again
isolation_failed_retrying(r) ==
    /\ halt_pc = "Isolating"
    /\ agent["isolation"].st = "Running"
    /\ ~TimerElapsed
    /\ IsolationFatal(r)
    /\ IF agent["isolation"].calls < 2
       THEN /\ agent' = Started(Finished(agent, "isolation", r), "isolation")
            /\ halt_log' = halt_log \o <<"isolation_done", "isolation_start">>
            /\ UNCHANGED <<halt_result, halt_pc>>
       ELSE /\ agent' = Finished(agent, "isolation", r)
            /\ halt_result' = IsolationError(r.err)
            /\ halt_pc' = "Returned"
            /\ halt_log' = halt_log \o <<"isolation_done", "return">>
    /\ UNCHANGED <<policy, now, isolation_duration, violations>>
    /\ UNCHANGED otherThanHalt

\* isolation resolved with an error: run_sequence_internal returns it
isolation_failed(r) ==
    /\ halt_pc = "Isolating"
    /\ agent["isolation"].st = "Running"
    /\ ~TimerElapsed
    /\ IsolationFatal(r)
    /\ agent' = Finished(agent, "isolation", r)
    /\ halt_result' = IsolationError(r.err)
    /\ halt_pc' = "Returned"
    /\ halt_log' = halt_log \o <<"isolation_done", "return">>
    /\ UNCHANGED <<policy, now, isolation_duration, violations>>
    /\ UNCHANGED otherThanHalt

\* mutant: the duration is compared with the total timeout instead of the SLA
SlaViolatedAgainstTotal(duration, p) == duration > p.halt_context.total_timeout_ms

\* mutant: a duration equal to the SLA counts as a violation
SlaViolatedAtOrAbove(duration, p) == duration >= p.halt_context.isolation_sla_ms

\* isolation_duration > isolation_sla
SlaViolated(duration, p) == duration > p.halt_context.isolation_sla_ms

\* isolation went through: measure it, record an SLA violation if any, then
\* tokio::join! polls sanitization and forensics (both are invoked)
isolation_confirmed(r) ==
    /\ halt_pc = "Isolating"
    /\ agent["isolation"].st = "Running"
    /\ ~TimerElapsed
    /\ ~IsolationFatal(r)
    /\ isolation_duration' = now
    /\ violations' =
          IF SlaViolated(now, policy)
          THEN Append(violations, [policy_id |-> policy.policy_id,
                                   component |-> "Isolation",
                                   duration_ms |-> now])
          ELSE violations
    /\ agent' = Started(Started(Finished(agent, "isolation", r),
                                "sanitization"), "forensics")
    /\ halt_log' = halt_log \o <<"isolation_done", "sanitization_start", "forensics_start">>
    /\ halt_pc' = "Phase2"
    /\ UNCHANGED <<policy, now, halt_result>>
    /\ UNCHANGED otherThanHalt

\* mutant: try_join! semantics, the join resolves on the first error
JoinReadyOnFirstError(ag) ==
    \/ ag["sanitization"].st = "Done" /\ ag["forensics"].st = "Done"
    \/ \E op \in {"sanitization", "forensics"} : ag[op].st = "Done" /\ ~ag[op].res.ok

\* tokio::join!: resolves once both branches have resolved
JoinReady(ag) == ag["sanitization"].st = "Done" /\ ag["forensics"].st = "Done"

\* mutant: forensics is checked before sanitization
AggregateForensicsFirst(sanitization_result, forensics_result) ==
    IF ~forensics_result.ok
    THEN Err(HaltErr("ForensicsFailed", to_string(forensics_result.err)))
    ELSE IF ~sanitization_result.ok
    THEN Err(HaltErr("SanitizationFailed", to_string(sanitization_result.err)))
    ELSE Ok

\* mutant: a forensics failure is logged but not reported
AggregateIgnoringForensics(sanitization_result, forensics_result) ==
    IF ~sanitization_result.ok
    THEN Err(HaltErr("SanitizationFailed", to_string(sanitization_result.err)))
    ELSE Ok

\* lines 120-125: sanitization is checked before forensics
AggregateResults(sanitization_result, forensics_result) ==
    IF ~sanitization_result.ok
    THEN Err(HaltErr("SanitizationFailed", to_string(sanitization_result.err)))
    ELSE IF ~forensics_result.ok
    THEN Err(HaltErr("ForensicsFailed", to_string(forensics_result.err)))
    ELSE Ok

\* one branch of the join resolved with r; if the join is ready the sequence returns
Phase2Done(op, r) ==
    /\ halt_pc = "Phase2"
    /\ agent[op].st = "Running"
    /\ ~TimerElapsed
    /\ agent' = Finished(agent, op, r)
    /\ IF JoinReady(agent')
       THEN /\ halt_result' = AggregateResults(agent'["sanitization"].res,
                                                agent'["forensics"].res)
            /\ halt_pc' = "Returned"
            /\ halt_log' = halt_log \o <<op \o "_done", "return">>
       ELSE /\ halt_log' = Append(halt_log, op \o "_done")
            /\ UNCHANGED <<halt_result, halt_pc>>
    /\ UNCHANGED <<policy, now, isolation_duration, violations>>
    /\ UNCHANGED otherThanHalt

sanitization_done(r) == Phase2Done("sanitization", r)
forensics_done(r) == Phase2Done("forensics", r)

\* mutant: the wrong policy field is reported
TimeoutErrorWithSla(p) == Err(TimeoutErr(p.halt_context.isolation_sla_ms))

\* the Err(_) arm of the match on timeout(..)
TimeoutError(p) == Err(TimeoutErr(p.halt_context.total_timeout_ms))

\* mutant: the deadline is only looked at once isolation is through
timeout_elapsed_after_isolation ==
    /\ halt_pc = "Phase2"
    /\ TimerElapsed
    /\ halt_result' = TimeoutError(policy)
    /\ halt_pc' = "Returned"
    /\ halt_log' = Append(halt_log, "return")
    /\ UNCHANGED <<policy, now, agent, isolation_duration, violations>>
    /\ UNCHANGED otherThanHalt

\* the Delay elapsed before the sequence resolved: the sequence is dropped where
\* it stands and Timeout(total_timeout) is returned
timeout_elapsed ==
    /\ InFlight
    /\ TimerElapsed
    /\ halt_result' = TimeoutError(policy)
    /\ halt_pc' = "Returned"
    /\ halt_log' = Append(halt_log, "return")
    /\ UNCHANGED <<policy, now, agent, isolation_duration, violations>>
    /\ UNCHANGED otherThanHalt

HaltNext ==
    \/ execute_halt_sequence
    \/ Tick
    \/ \E r \in AgentResults : isolation_failed(r)
    \/ \E r \in AgentResults : isolation_confirmed(r)
    \/ \E r \in AgentResults : sanitization_done(r)
    \/ \E r \in AgentResults : forensics_done(r)
    \/ timeout_elapsed

-----------------------------------------------------------------------------
(* Atomic Snapshot Generator *)

INTEGRITY_HASH_SIZE == 64
MAX_SNAPSHOT_DURATION_MICROS == 5000
RSCM_PACKAGE_VERSION == 1
CONTEXT_FLAG_GSEP_C == 66
HASHING_PROTOCOL_ID == 1
CANONICAL_METADATA_LEN == 23

\* Duration::from_micros(5000), in nanoseconds
MAX_SNAPSHOT_DURATION == MAX_SNAPSHOT_DURATION_MICROS * 1000

\* mutant: big-endian encoding (to_be_bytes)
RECURSIVE to_be_bytes(_, _)
to_be_bytes(n, width) ==
    IF width = 0 THEN <<>> ELSE to_be_bytes(n \div 256, width - 1) \o <<n % 256>>

\* uN::to_le_bytes: `width` bytes, least significant first
RECURSIVE to_le_bytes(_, _)
to_le_bytes(n, width) ==
    IF width = 0 THEN <<>> ELSE <<n % 256>> \o to_le_bytes(n \div 256, width - 1)

\* RscmPackageMetadata::to_canonical_bytes
to_canonical_bytes(m) ==
    LET bytes == to_le_bytes(m.capture_version, 2)
                 \o to_le_bytes(m.absolute_capture_ts_epoch_ns, 8)
                 \o to_le_bytes(m.context_flags, 4)
                 \o to_le_bytes(m.hashing_protocol_id, 1)
                 \o to_le_bytes(m.volatile_data_size, 8)
    IN  IF Len(bytes) # CANONICAL_METADATA_LEN
        THEN [ok |-> FALSE, bytes |-> <<>>]
        ELSE [ok |-> TRUE, bytes |-> bytes]

\* the hasher: an ideal fixed-output hash of the byte stream it was fed
Digest(stream) == [digest_of |-> stream]

\* mutant: the metadata block is hashed first
HashChunksMetadataFirst(vm_dump, trace, metadata_bytes) == <<metadata_bytes, vm_dump, trace>>

\* the hasher.update calls, in order: volatile data, stack trace, metadata block
HashChunks(vm_dump, trace, metadata_bytes) == <<vm_dump, trace, metadata_bytes>>

RECURSIVE Flatten(_)
Flatten(chunks) == IF chunks = <<>> THEN <<>> ELSE Head(chunks) \o Flatten(Tail(chunks))

\* mutant: one nanosecond of slack on top of the budget
ExceedsBudgetWithSlack(duration_ns) == duration_ns > MAX_SNAPSHOT_DURATION + 1

\* mutant: the latency in microseconds is compared with the nanosecond budget
ExceedsBudgetInMicros(duration_ns) == duration_ns \div 1000 > MAX_SNAPSHOT_DURATION

\* duration > MAX_SNAPSHOT_DURATION
ExceedsBudget(duration_ns) == duration_ns > MAX_SNAPSHOT_DURATION

\* RscmPackage::new
RscmPackageNew(absolute_ts, latency_ns, hash, vm_dump, trace, context_flags, hashing_protocol_id, volatile_data_size) ==
    [capture_version |-> RSCM_PACKAGE_VERSION,
     absolute_capture_ts_epoch_ns |-> absolute_ts,
     capture_latency_ns |-> latency_ns,
     integrity_hash |-> hash,
     volatile_memory_dump |-> vm_dump,
     stack_trace |-> trace,
     context_flags |-> context_flags,
     hashing_protocol_id |-> hashing_protocol_id,
     volatile_data_size |-> volatile_data_size]

NoPackage == RscmPackageNew(0, 0, Digest(<<>>), <<>>, <<>>, 0, 0, 0)

\* SnapshotError values
SnapErr(kind) == [kind |-> kind, expected |-> 0, actual |-> 0, actual_duration_ns |-> 0]
NoSnapErr == SnapErr("None")

\* calls made to the injected capabilities
Calls(priv, epoch, mem, stack, hasher_new, finalize) ==
    [check_privilege |-> priv, get_current_epoch_ns |-> epoch,
     capture_volatile_memory |-> mem, capture_execution_stack |-> stack,
     new_hasher_fixed_output |-> hasher_new, finalize |-> finalize]

AsgErr(e, fed, calls) == [ok |-> FALSE, err |-> e, pkg |-> NoPackage, fed |-> fed, calls |-> calls]
AsgOk(pkg, fed, calls) == [ok |-> TRUE, err |-> NoSnapErr, pkg |-> pkg, fed |-> fed, calls |-> calls]

\* mutant: the privilege check is skipped
PrivilegeDeniedIgnored(env) == FALSE

\* !T::check_privilege()
PrivilegeDenied(env) == ~env.privilege

\* mutant: a failed capture is replaced by an empty dump (unwrap_or_default)
MemoryCaptureErrIgnored(env) == FALSE

\* T::capture_volatile_memory() returned Err
MemoryCaptureErr(env) == ~env.memory.ok

\* mutant: the output length is not checked, so the elapsed-time check
\* decides also for a wrong-length hash
HashSizeUnchecked(len) == FALSE

\* mutant: only a short output is rejected
HashSizeTooShort(len) == len < INTEGRITY_HASH_SIZE

\* raw_hash.len() != INTEGRITY_HASH_SIZE
HashSizeMismatch(len) == len # INTEGRITY_HASH_SIZE

\* generate_rscm_snapshot::<T>() against the answers in env
GenerateRscmSnapshot(env) ==
    IF PrivilegeDenied(env)
    THEN AsgErr(SnapErr("PrivilegeRequired"), <<>>, Calls(1, 0, 0, 0, 0, 0))
    ELSE
    LET absolute_ts == env.epoch_ns IN
    IF MemoryCaptureErr(env)
    THEN AsgErr(SnapErr("MemoryCaptureFailed"), <<>>, Calls(1, 1, 1, 0, 0, 0))
    ELSE
    LET vm_dump == env.memory.bytes
        trace == env.stack
        context_flags == CONTEXT_FLAG_GSEP_C
        volatile_data_size == Len(vm_dump)
    IN
    IF ~env.hasher_new_ok
    THEN AsgErr(SnapErr("IntegrityHashingFailed"), <<>>, Calls(1, 1, 1, 1, 1, 0))
    ELSE
    LET metadata == [capture_version |-> RSCM_PACKAGE_VERSION,
                     absolute_capture_ts_epoch_ns |-> absolute_ts,
                     context_flags |-> context_flags,
                     hashing_protocol_id |-> HASHING_PROTOCOL_ID,
                     volatile_data_size |-> volatile_data_size]
        metadata_bytes == to_canonical_bytes(metadata)
    IN
    IF ~metadata_bytes.ok
    THEN AsgErr(SnapErr("MetadataEncodingFailed"), <<vm_dump, trace>>, Calls(1, 1, 1, 1, 1, 0))
    ELSE
    LET fed == HashChunks(vm_dump, trace, metadata_bytes.bytes) IN
    IF ~env.finalize.ok
    THEN AsgErr(SnapErr("IntegrityHashingFailed"), fed, Calls(1, 1, 1, 1, 1, 1))
    ELSE
    LET raw_hash == [len |-> env.finalize.len, value |-> Digest(Flatten(fed))] IN
    IF HashSizeMismatch(raw_hash.len)
    THEN AsgErr([SnapErr("HashingOutputMismatch") EXCEPT
                    !.expected = INTEGRITY_HASH_SIZE, !.actual = raw_hash.len],
                fed, Calls(1, 1, 1, 1, 1, 1))
    ELSE
    LET integrity_hash == raw_hash.value
        latency_ns == env.elapsed_ns
    IN
    IF ExceedsBudget(env.elapsed_ns)
    THEN AsgErr([SnapErr("Timeout") EXCEPT !.actual_duration_ns = latency_ns],
                fed, Calls(1, 1, 1, 1, 1, 1))
    ELSE AsgOk(RscmPackageNew(absolute_ts, latency_ns, integrity_hash, vm_dump, trace,
                              context_flags, HASHING_PROTOCOL_ID, volatile_data_size),
               fed, Calls(1, 1, 1, 1, 1, 1))

\* byte sequences of at most n bytes over the alphabet B
RECURSIVE BytesUpTo(_, _)
BytesUpTo(B, n) ==
    IF n = 0 THEN {<<>>}
    ELSE LET shorter == BytesUpTo(B, n - 1)
         IN  shorter \cup {Append(b, x) : b \in shorter, x \in B}

\* the answers of the environment exercised
Environments ==
    [privilege : BOOLEAN,
     epoch_ns : {0, 258, 16909060},
     memory : {[ok |-> FALSE, bytes |-> <<>>]}
              \cup {[ok |-> TRUE, bytes |-> b] : b \in BytesUpTo({170, 255}, MaxDumpLen)},
     stack : BytesUpTo({82}, MaxTraceLen),
     hasher_new_ok : BOOLEAN,
     finalize : {[ok |-> FALSE, len |-> 0]}
                \cup {[ok |-> TRUE, len |-> n] :
                        n \in (INTEGRITY_HASH_SIZE - 1)..(INTEGRITY_HASH_SIZE + 1)},
     elapsed_ns : {0, MAX_SNAPSHOT_DURATION - 1, MAX_SNAPSHOT_DURATION,
                   MAX_SNAPSHOT_DURATION + 1}]

IdleEnvironment ==
    [privilege |-> FALSE, epoch_ns |-> 0, memory |-> [ok |-> FALSE, bytes |-> <<>>],
     stack |-> <<>>, hasher_new_ok |-> FALSE, finalize |-> [ok |-> FALSE, len |-> 0],
     elapsed_ns |-> 0]

AsgInit ==
    /\ asg_called = FALSE
    /\ asg_env = IdleEnvironment
    /\ asg_out = AsgErr(NoSnapErr, <<>>, Calls(0, 0, 0, 0, 0, 0))

\* one call of generate_rscm_snapshot
generate_rscm_snapshot(env) ==
    /\ ~asg_called
    /\ asg_called' = TRUE
    /\ asg_env' = env
    /\ asg_out' = GenerateRscmSnapshot(env)
    /\ UNCHANGED otherThanAsg

\* the caller takes the result away; the generator keeps no state between calls
snapshot_consumed ==
    /\ asg_called
    /\ asg_called' = FALSE
    /\ asg_env' = IdleEnvironment
    /\ asg_out' = AsgErr(NoSnapErr, <<>>, Calls(0, 0, 0, 0, 0, 0))
    /\ UNCHANGED otherThanAsg

AsgNext ==
    \/ \E env \in Environments : generate_rscm_snapshot(env)
    \/ snapshot_consumed

-----------------------------------------------------------------------------
(* Compiler Engine: CompilerServiceHandle::spawn_service, CompilerEngine::run *)

EngineSetIds == {1, 2}

\* CompilationTask
CompileDefinition(set_id, noir_bytecode_or_acvm_ir, gax_policies) ==
    [kind |-> "CompileDefinition", set_id |-> set_id,
     noir_bytecode_or_acvm_ir |-> noir_bytecode_or_acvm_ir, gax_policies |-> gax_policies]
Shutdown ==
    [kind |-> "Shutdown", set_id |-> 0, noir_bytecode_or_acvm_ir |-> "", gax_policies |-> ""]

\* the tasks producers send: either set, the definition text empty or not,
\* the policy text empty or not
CompilationTasks ==
    {CompileDefinition(1, ACVM_DEFINITION, GAX_POLICIES),
     CompileDefinition(2, ACVM_DEFINITION, ""),
     CompileDefinition(1, "", GAX_POLICIES),
     CompileDefinition(2, "", ""),
     Shutdown}

\* a task in the queue, tagged with its arrival number
Arrived(task, n) == [task |-> task, n |-> n]
NoTask == Arrived(Shutdown, 0)

\* the closure handed to spawn_blocking
CompileJob(noir_bytecode_or_acvm_ir) ==
    IF is_empty(noir_bytecode_or_acvm_ir)
    THEN [ok |-> FALSE, err |-> "CompilationFailed"]
    ELSE [ok |-> TRUE, block |-> CompiledConstraintBlock(3)]

\* how the blocking thread ends: the closure returns, or the JoinHandle
\* reports a JoinError
JobOutcomes == {"returned", "panicked"}

\* spawn_blocking(..).await.unwrap_or_else(..)
JoinResult(outcome, noir_bytecode_or_acvm_ir) ==
    IF outcome = "panicked"
    THEN [ok |-> FALSE, err |-> "ExternalDependencyFailure"]
    ELSE CompileJob(noir_bytecode_or_acvm_ir)

NoResult == [ok |-> FALSE, err |-> "None"]

\* the (set_id, compilation_result) message, tagged with its task's arrival number
ResultMessage(set_id, result, n) == [set_id |-> set_id, result |-> result, n |-> n]

\* mutant: the receiver hands out the newest message
TaskRecvNewest(queue) ==
    [task |-> queue[Len(queue)], rest |-> SubSeq(queue, 1, Len(queue) - 1)]

\* task_receiver.recv() on a non-empty queue: the oldest message
TaskRecv(queue) == [task |-> Head(queue), rest |-> Tail(queue)]

\* the state spawn_service leaves: empty channels, the engine awaiting recv()
EngineInit ==
    /\ task_queue = <<>>
    /\ handle_alive = TRUE
    /\ engine_pc = "recv"
    /\ engine_task = NoTask
    /\ compilation_result = NoResult
    /\ result_channel = <<>>
    /\ result_receiver_alive = TRUE
    /\ accepted = <<>>
    /\ dequeued = <<>>
    /\ published = <<>>
    /\ delivered = <<>>

\* mutant: a send into a full queue pushes the oldest queued task out
task_send_overwriting(task) ==
    /\ handle_alive
    /\ engine_pc # "terminated"
    /\ Len(accepted) < MaxTasks
    /\ task_queue' = IF Len(task_queue) < task_buffer_size
                        THEN Append(task_queue, Arrived(task, Len(accepted) + 1))
                        ELSE Append(Tail(task_queue), Arrived(task, Len(accepted) + 1))
    /\ accepted' = Append(accepted, Arrived(task, Len(accepted) + 1))
    /\ UNCHANGED <<handle_alive, engine_pc, engine_task, compilation_result,
                   result_channel, result_receiver_alive, dequeued, published, delivered>>
    /\ UNCHANGED otherThanEngine

\* task_sender.send(task).await completes: there is room and the engine
\* still holds the receiver
task_send(task) ==
    /\ handle_alive
    /\ engine_pc # "terminated"
    /\ Len(accepted) < MaxTasks
    /\ Len(task_queue) < task_buffer_size
    /\ task_queue' = Append(task_queue, Arrived(task, Len(accepted) + 1))
    /\ accepted' = Append(accepted, Arrived(task, Len(accepted) + 1))
    /\ UNCHANGED <<handle_alive, engine_pc, engine_task, compilation_result,
                   result_channel, result_receiver_alive, dequeued, published, delivered>>
    /\ UNCHANGED otherThanEngine

\* every CompilerServiceHandle is dropped
handle_drop ==
    /\ handle_alive
    /\ handle_alive' = FALSE
    /\ UNCHANGED <<task_queue, engine_pc, engine_task, compilation_result,
                   result_channel, result_receiver_alive,
                   accepted, dequeued, published, delivered>>
    /\ UNCHANGED otherThanEngine

\* recv() returns Some(CompileDefinition {..}): the job is spawned and awaited
engine_recv_compile ==
    /\ engine_pc = "recv"
    /\ task_queue # <<>>
    /\ TaskRecv(task_queue).task.task.kind = "CompileDefinition"
    /\ task_queue' = TaskRecv(task_queue).rest
    /\ engine_task' = TaskRecv(task_queue).task
    /\ dequeued' = Append(dequeued, TaskRecv(task_queue).task)
    /\ engine_pc' = "compiling"
    /\ UNCHANGED <<handle_alive, compilation_result, result_channel,
                   result_receiver_alive, accepted, published, delivered>>
    /\ UNCHANGED otherThanEngine

\* mutant: a queued Shutdown is acted upon while the job is still awaited
engine_recv_shutdown_preemptive ==
    /\ engine_pc \in {"recv", "compiling", "send"}
    /\ task_queue # <<>>
    /\ TaskRecv(task_queue).task.task.kind = "Shutdown"
    /\ task_queue' = TaskRecv(task_queue).rest
    /\ engine_task' = TaskRecv(task_queue).task
    /\ dequeued' = Append(dequeued, TaskRecv(task_queue).task)
    /\ engine_pc' = "terminated"
    /\ UNCHANGED <<handle_alive, compilation_result, result_channel,
                   result_receiver_alive, accepted, published, delivered>>
    /\ UNCHANGED otherThanEngine

\* recv() returns Some(Shutdown): break
engine_recv_shutdown ==
    /\ engine_pc = "recv"
    /\ task_queue # <<>>
    /\ TaskRecv(task_queue).task.task.kind = "Shutdown"
    /\ task_queue' = TaskRecv(task_queue).rest
    /\ engine_task' = TaskRecv(task_queue).task
    /\ dequeued' = Append(dequeued, TaskRecv(task_queue).task)
    /\ engine_pc' = "terminated"
    /\ UNCHANGED <<handle_alive, compilation_result, result_channel,
                   result_receiver_alive, accepted, published, delivered>>
    /\ UNCHANGED otherThanEngine

\* mutant: the engine keeps a sender of its own, so recv() never returns None
engine_recv_none_sender_kept ==
    /\ engine_pc = "recv"
    /\ task_queue = <<>>
    /\ ~handle_alive
    /\ FALSE
    /\ engine_pc' = "terminated"
    /\ UNCHANGED <<task_queue, handle_alive, engine_task, compilation_result,
                   result_channel, result_receiver_alive,
                   accepted, dequeued, published, delivered>>
    /\ UNCHANGED otherThanEngine

\* recv() returns None: the queue is empty and every sender is gone
engine_recv_none ==
    /\ engine_pc = "recv"
    /\ task_queue = <<>>
    /\ ~handle_alive
    /\ engine_pc' = "terminated"
    /\ UNCHANGED <<task_queue, handle_alive, engine_task, compilation_result,
                   result_channel, result_receiver_alive,
                   accepted, dequeued, published, delivered>>
    /\ UNCHANGED otherThanEngine

\* mutant: the job delegates to compile_constraints, which also rejects an
\* empty policy text
compile_job_done_checking_policies(outcome) ==
    /\ engine_pc = "compiling"
    /\ compilation_result' =
          IF outcome = "panicked"
          THEN [ok |-> FALSE, err |-> "ExternalDependencyFailure"]
          ELSE compile_constraints(engine_task.task.noir_bytecode_or_acvm_ir,
                                   engine_task.task.gax_policies, 3)
    /\ engine_pc' = "send"
    /\ UNCHANGED <<task_queue, handle_alive, engine_task, result_channel,
                   result_receiver_alive, accepted, dequeued, published, delivered>>
    /\ UNCHANGED otherThanEngine

\* mutant: a JoinError is unwrapped, taking the engine task down with it
compile_job_done_unwrapping(outcome) ==
    /\ engine_pc = "compiling"
    /\ compilation_result' = JoinResult(outcome, engine_task.task.noir_bytecode_or_acvm_ir)
    /\ engine_pc' = IF outcome = "panicked" THEN "terminated" ELSE "send"
    /\ UNCHANGED <<task_queue, handle_alive, engine_task, result_channel,
                   result_receiver_alive, accepted, dequeued, published, delivered>>
    /\ UNCHANGED otherThanEngine

\* the awaited spawn_blocking job ends; the loop body resumes
compile_job_done(outcome) ==
    /\ engine_pc = "compiling"
    /\ compilation_result' = JoinResult(outcome, engine_task.task.noir_bytecode_or_acvm_ir)
    /\ engine_pc' = "send"
    /\ UNCHANGED <<task_queue, handle_alive, engine_task, result_channel,
                   result_receiver_alive, accepted, dequeued, published, delivered>>
    /\ UNCHANGED otherThanEngine

\* result_sender.send((set_id, compilation_result)).await returns Ok
result_send ==
    /\ engine_pc = "send"
    /\ result_receiver_alive
    /\ Len(result_channel) < result_buffer_size
    /\ result_channel' = Append(result_channel,
            ResultMessage(engine_task.task.set_id, compilation_result, engine_task.n))
    /\ published' = Append(published,
            ResultMessage(engine_task.task.set_id, compilation_result, engine_task.n))
    /\ engine_pc' = "recv"
    /\ UNCHANGED <<task_queue, handle_alive, engine_task, compilation_result,
                   result_receiver_alive, accepted, dequeued, delivered>>
    /\ UNCHANGED otherThanEngine

\* mutant: the send error is logged and the loop goes on
result_send_failed_continuing ==
    /\ engine_pc = "send"
    /\ ~result_receiver_alive
    /\ engine_pc' = "recv"
    /\ UNCHANGED <<task_queue, handle_alive, engine_task, compilation_result,
                   result_channel, result_receiver_alive,
                   accepted, dequeued, published, delivered>>
    /\ UNCHANGED otherThanEngine

\* result_sender.send(..).await returns Err: the receiver was dropped; break
result_send_failed ==
    /\ engine_pc = "send"
    /\ ~result_receiver_alive
    /\ engine_pc' = "terminated"
    /\ UNCHANGED <<task_queue, handle_alive, engine_task, compilation_result,
                   result_channel, result_receiver_alive,
                   accepted, dequeued, published, delivered>>
    /\ UNCHANGED otherThanEngine

\* the owner of the result channel receives the oldest message
result_recv ==
    /\ result_receiver_alive
    /\ result_channel # <<>>
    /\ delivered' = Append(delivered, Head(result_channel))
    /\ result_channel' = Tail(result_channel)
    /\ UNCHANGED <<task_queue, handle_alive, engine_pc, engine_task, compilation_result,
                   result_receiver_alive, accepted, dequeued, published>>
    /\ UNCHANGED otherThanEngine

\* the owner drops the receiving end; undelivered messages go with it
result_receiver_drop ==
    /\ result_receiver_alive
    /\ result_receiver_alive' = FALSE
    /\ result_channel' = <<>>
    /\ UNCHANGED <<task_queue, handle_alive, engine_pc, engine_task, compilation_result,
                   accepted, dequeued, published, delivered>>
    /\ UNCHANGED otherThanEngine

EngineNext ==
    \/ \E task \in CompilationTasks : task_send(task)
    \/ handle_drop
    \/ engine_recv_compile
    \/ engine_recv_shutdown
    \/ engine_recv_none
    \/ \E outcome \in JobOutcomes : compile_job_done(outcome)
    \/ result_send
    \/ result_send_failed
    \/ result_recv
    \/ result_receiver_drop

-----------------------------------------------------------------------------
(* Specifications: one per subsystem *)

InitDCS ==
    /\ \E id \in SetIds : initialize(id) /\ SharedInit(id)
    /\ HaltInitWith(IdlePolicy)
    /\ AsgInit
    /\ EngineInit
    /\ CompileInit
SpecDCS == InitDCS /\ [][DcsNext]_vars
SpecCompile == InitDCS /\ [][CompileNext]_vars

InitHalt ==
    /\ initialize(1)
    /\ SharedInit(1)
    /\ \E p \in Policies : HaltInitWith(p)
    /\ AsgInit
    /\ EngineInit
    /\ CompileInit
SpecHalt == InitHalt /\ [][HaltNext]_vars

\* The clock advances and the timer of tokio::time::timeout fires; nothing
\* is assumed about the agent: its operations may never complete.
HaltFairness == WF_vars(Tick) /\ WF_vars(timeout_elapsed)
SpecHaltFair == SpecHalt /\ HaltFairness

InitASG ==
    /\ initialize(1)
    /\ SharedInit(1)
    /\ HaltInitWith(IdlePolicy)
    /\ AsgInit
    /\ EngineInit
    /\ CompileInit
SpecASG == InitASG /\ [][AsgNext]_vars

InitShared ==
    /\ \E id \in SetIds : initialize(id) /\ SharedInit(id)
    /\ HaltInitWith(IdlePolicy)
    /\ AsgInit
    /\ EngineInit
    /\ CompileInit
SpecShared == InitShared /\ [][SharedNext]_vars

\* The three subsystems and the engine side by side.  They share no variable,
\* so a behaviour exercises one of them while the others rest in their
\* initial state.
InitCore ==
    /\ initialize(1)
    /\ SharedInit(1)
    /\ \E p \in Policies : HaltInitWith(p)
    /\ AsgInit
    /\ EngineInit
    /\ CompileInit
CoreNext ==
    \/ AsgInit /\ EngineInit /\ HaltNext
    \/ HaltInitWith(IdlePolicy) /\ EngineInit /\ AsgNext
    \/ HaltInitWith(IdlePolicy) /\ AsgInit /\ EngineNext
SpecCore == InitCore /\ [][CoreNext]_vars

InitEngine ==
    /\ initialize(1)
    /\ SharedInit(1)
    /\ HaltInitWith(IdlePolicy)
    /\ AsgInit
    /\ EngineInit
    /\ CompileInit
SpecEngine == InitEngine /\ [][EngineNext]_vars

\* The runtime keeps polling the spawned engine task and the blocking pool
\* runs the job to its end; the owner of the result channel, as long as it
\* has not dropped the receiver, keeps receiving.
EngineFairness ==
    /\ WF_vars(engine_recv_compile)
    /\ WF_vars(engine_recv_shutdown)
    /\ WF_vars(engine_recv_none)
    /\ WF_vars(\E outcome \in JobOutcomes : compile_job_done(outcome))
    /\ WF_vars(result_send)
    /\ WF_vars(result_send_failed)
    /\ WF_vars(result_recv)

\* the engine under fairness, fed with one task of each kind of outcome
LiveTasks ==
    {CompileDefinition(1, ACVM_DEFINITION, GAX_POLICIES), CompileDefinition(2, "", ""), Shutdown}

EngineFairNext ==
    \/ \E task \in LiveTasks : task_send(task)
    \/ handle_drop
    \/ engine_recv_compile
    \/ engine_recv_shutdown
    \/ engine_recv_none
    \/ \E outcome \in JobOutcomes : compile_job_done(outcome)
    \/ result_send
    \/ result_send_failed
    \/ result_recv
    \/ result_receiver_drop

SpecEngineFair == InitEngine /\ [][EngineFairNext]_vars /\ EngineFairness

-----------------------------------------------------------------------------
(* C1: the active reference is always the very Arc stored in the cache under
   some set id, or a bootstrap block with compilation_version 0 -- also after
   inject_compiled_set overwrites the entry of the active set. *)
C1_ActiveRefInCacheOrBootstrap ==
    \/ \E id \in DOMAIN constraint_cache : constraint_cache[id] = active_block_ref
    \/ active_constraints.compilation_version = 0

-----------------------------------------------------------------------------
(* Vocabulary of the halt claims *)

total_timeout_ms == policy.halt_context.total_timeout_ms
isolation_sla_ms == policy.halt_context.isolation_sla_ms
Returned == halt_pc = "Returned"
\* the sequence returned before the deadline (Tick stops once it has returned)
ReturnedInTime == Returned /\ now < total_timeout_ms
\* the deadline passed while the sequence was still in flight
DeadlineMissed == now >= total_timeout_ms
OpDone(op) == agent[op].st = "Done"
OpOk(op) == OpDone(op) /\ agent[op].res.ok
OpFailed(op) == OpDone(op) /\ ~agent[op].res.ok
Pos(e) == CHOOSE i \in 1..Len(halt_log) : halt_log[i] = e
Logged(e) == \E i \in 1..Len(halt_log) : halt_log[i] = e
Before(e1, e2) == Logged(e1) /\ Logged(e2) /\ Pos(e1) < Pos(e2)

(* C2: if the sequence has not finished when total_timeout_ms elapses, the call
   returns Timeout carrying exactly total_timeout_ms, whatever phase is in
   flight and whatever the phases produced; never Ok or a phase failure. *)
C2_TimeoutCarriesTotal ==
    (Returned /\ DeadlineMissed) => halt_result = Err(TimeoutErr(total_timeout_ms))

\* timed out in phase 2 after sanitization had already failed
C2_Witness ==
    /\ Returned /\ DeadlineMissed
    /\ OpFailed("sanitization") /\ agent["forensics"].st = "Running"
    /\ halt_result.err.kind = "Timeout"

(* C3: sanitization and forensics are never started before isolation has
   completed successfully; if isolation fails, or the timeout fires while
   isolation is running, they are never started in that invocation. *)
C3_IsolationBeforePhase2 ==
    /\ \A op \in {"sanitization", "forensics"} :
          agent[op].calls > 0 => (OpOk("isolation") /\ Before("isolation_done", op \o "_start"))
    /\ (Returned /\ ~OpOk("isolation")) =>
          \A op \in {"sanitization", "forensics"} : agent[op] = NotStarted

\* phase 2 is running, after a successful isolation
C3_Witness ==
    /\ halt_pc = "Phase2" /\ OpOk("isolation")
    /\ agent["sanitization"].st = "Running" /\ agent["forensics"].st = "Running"

(* C4: absent the total timeout, the orchestrator returns a phase-2 result only
   after both sanitization and forensics have completed, even when one of them
   fails before the other finishes. *)
C4_BothAwaited ==
    (ReturnedInTime /\ agent["sanitization"].calls > 0) =>
        (OpDone("sanitization") /\ OpDone("forensics")
         /\ Before("sanitization_done", "return") /\ Before("forensics_done", "return"))

\* sanitization failed first, forensics finished (successfully) afterwards
C4_Witness ==
    /\ ReturnedInTime
    /\ OpFailed("sanitization") /\ OpOk("forensics")
    /\ Before("sanitization_done", "forensics_done")
    /\ halt_result.err.kind = "SanitizationFailed"

(* C5: when phase 2 completes within the timeout: only sanitization fails =>
   SanitizationFailed; only forensics fails => ForensicsFailed; both fail =>
   SanitizationFailed, whichever finished or failed first. *)
C5_FailurePrecedence ==
    (ReturnedInTime /\ OpDone("sanitization") /\ OpDone("forensics")) =>
        /\ OpFailed("sanitization") =>
              (~halt_result.ok /\ halt_result.err.kind = "SanitizationFailed")
        /\ (OpOk("sanitization") /\ OpFailed("forensics")) =>
              (~halt_result.ok /\ halt_result.err.kind = "ForensicsFailed")

\* both failed, forensics first
C5_Witness ==
    /\ ReturnedInTime
    /\ OpFailed("sanitization") /\ OpFailed("forensics")
    /\ Before("forensics_done", "sanitization_done")
    /\ halt_result.err.kind = "SanitizationFailed"

(* C6: isolation succeeds over its SLA and sanitization and forensics succeed
   within the timeout: exactly one record_violation(policy_id, "Isolation",
   duration) call is made and execute_halt_sequence returns Ok. *)
C6_SlaBreachIsAdvisory ==
    (ReturnedInTime /\ OpOk("isolation") /\ isolation_duration > isolation_sla_ms
        /\ OpOk("sanitization") /\ OpOk("forensics")) =>
        /\ violations = <<[policy_id |-> policy.policy_id, component |-> "Isolation",
                           duration_ms |-> isolation_duration]>>
        /\ halt_result = Ok

C6_Witness ==
    /\ ReturnedInTime /\ OpOk("isolation") /\ OpOk("sanitization") /\ OpOk("forensics")
    /\ isolation_duration > isolation_sla_ms
    /\ Len(violations) = 1 /\ halt_result.ok

(* C7: whenever the isolation call returns an error (and the timeout has not
   fired), execute_halt_sequence returns the kind IsolationFailed, for every
   error value execute_isolation_mandate can return. *)
C7_IsolationErrorKind ==
    (ReturnedInTime /\ OpFailed("isolation")) =>
        (~halt_result.ok /\ halt_result.err.kind = "IsolationFailed")

-----------------------------------------------------------------------------
(* Vocabulary of the snapshot claims *)

\* every step before the elapsed-time check succeeded
AllStepsSucceeded(env) ==
    /\ env.memory.ok /\ env.hasher_new_ok
    /\ env.finalize.ok /\ env.finalize.len = INTEGRITY_HASH_SIZE
\* the call took longer than 5 ms (5,000,000 ns)
TooSlow(env) == env.elapsed_ns > 5000 * 1000

RECURSIVE from_le_bytes(_)
from_le_bytes(b) == IF b = <<>> THEN 0 ELSE Head(b) + 256 * from_le_bytes(Tail(b))

\* the metadata block the hasher was fed in the last call (its third update)
MetadataFed == asg_out.fed[3]
ReachedHashing == asg_called /\ Len(asg_out.fed) = 3

(* C8 as stated: a call that passes the privilege check and takes longer than
   5 ms results in SnapshotError::Timeout and no package, whatever the outcome
   of the hashing steps. *)
C8_SlowAlwaysTimeout ==
    (asg_called /\ asg_env.privilege /\ TooSlow(asg_env)) =>
        (~asg_out.ok /\ asg_out.err.kind = "Timeout" /\ asg_out.pkg = NoPackage)

(* C8 amended: a call that passes the privilege check and takes longer than
   5 ms never returns a package; its result is Timeout (carrying the measured
   duration) whenever memory capture, hasher construction, finalize and the
   hash-length check all succeeded, and the error of the failing step otherwise. *)
C8_SlowNeverReturnsPackage ==
    (asg_called /\ asg_env.privilege /\ TooSlow(asg_env)) =>
        /\ ~asg_out.ok /\ asg_out.pkg = NoPackage
        /\ AllStepsSucceeded(asg_env) =>
              (asg_out.err.kind = "Timeout"
               /\ asg_out.err.actual_duration_ns = asg_env.elapsed_ns)
        /\ ~AllStepsSucceeded(asg_env) =>
              asg_out.err.kind \in {"MemoryCaptureFailed", "IntegrityHashingFailed",
                                    "HashingOutputMismatch"}

\* a slow call whose every step succeeded: Timeout
C8_Witness ==
    /\ asg_called /\ asg_env.privilege /\ TooSlow(asg_env) /\ AllStepsSucceeded(asg_env)
    /\ asg_out.err.kind = "Timeout"

(* C9: for every returned package, integrity_hash is the hash of
   volatile_memory_dump, then stack_trace, then the canonical metadata bytes
   rebuilt from the fields stored in the package; nothing else is hashed. *)
C9_HashCoversStoredFields ==
    (asg_called /\ asg_out.ok) =>
        LET pkg == asg_out.pkg
            rebuilt == to_canonical_bytes(
                [capture_version |-> pkg.capture_version,
                 absolute_capture_ts_epoch_ns |-> pkg.absolute_capture_ts_epoch_ns,
                 context_flags |-> pkg.context_flags,
                 hashing_protocol_id |-> pkg.hashing_protocol_id,
                 volatile_data_size |-> pkg.volatile_data_size])
            stream == pkg.volatile_memory_dump \o pkg.stack_trace \o rebuilt.bytes
        IN  /\ rebuilt.ok
            /\ pkg.integrity_hash = Digest(stream)
            /\ Flatten(asg_out.fed) = stream

\* a package with a non-empty dump, a non-empty trace and a multi-byte timestamp
C9_Witness ==
    /\ asg_called /\ asg_out.ok
    /\ Len(asg_out.pkg.volatile_memory_dump) > 0 /\ Len(asg_out.pkg.stack_trace) > 0
    /\ asg_out.pkg.absolute_capture_ts_epoch_ns > 255

(* C10 as stated: the canonical metadata bytes are, little-endian, timestamp
   (8 bytes), context flags (4), version (2), protocol id (1), then optionally
   payload size (8). *)
C10_LayoutTimestampFirst ==
    ReachedHashing =>
        LET b == MetadataFed IN
        /\ Len(b) \in {15, 23}
        /\ from_le_bytes(SubSeq(b, 1, 8)) = asg_env.epoch_ns
        /\ from_le_bytes(SubSeq(b, 9, 12)) = CONTEXT_FLAG_GSEP_C
        /\ from_le_bytes(SubSeq(b, 13, 14)) = RSCM_PACKAGE_VERSION
        /\ from_le_bytes(SubSeq(b, 15, 15)) = HASHING_PROTOCOL_ID
        /\ Len(b) = 23 => from_le_bytes(SubSeq(b, 16, 23)) = Len(asg_env.memory.bytes)

(* C10 amended: the canonical metadata bytes are always 23 bytes, little-endian,
   in the field order version (2 bytes), timestamp (8), context flags (4),
   protocol id (1), payload size (8); the order is the same on every call. *)
C10_LayoutVersionFirst ==
    ReachedHashing =>
        LET b == MetadataFed IN
        /\ Len(b) = 23
        /\ \A i \in 1..Len(b) : b[i] \in 0..255
        /\ from_le_bytes(SubSeq(b, 1, 2)) = RSCM_PACKAGE_VERSION
        /\ from_le_bytes(SubSeq(b, 3, 10)) = asg_env.epoch_ns
        /\ from_le_bytes(SubSeq(b, 11, 14)) = CONTEXT_FLAG_GSEP_C
        /\ from_le_bytes(SubSeq(b, 15, 15)) = HASHING_PROTOCOL_ID
        /\ from_le_bytes(SubSeq(b, 16, 23)) = Len(asg_env.memory.bytes)

\* a metadata block with a timestamp of several non-zero bytes and a non-zero size
C10_Witness ==
    /\ ReachedHashing
    /\ asg_env.epoch_ns > 65535
    /\ Len(asg_env.memory.bytes) > 0

(* C11: for every call that reaches a successful finalize, the result is
   HashingOutputMismatch{expected, actual} if and only if the finalize output
   length differs from the configured hash size (64); then expected is 64 and
   actual is the produced length; a 64-byte output never gives this error. *)
ReachedFinalizeOk ==
    /\ asg_called /\ asg_env.privilege /\ asg_env.memory.ok
    /\ asg_env.hasher_new_ok /\ asg_env.finalize.ok

C11_MismatchIffWrongLength ==
    ReachedFinalizeOk =>
        /\ (asg_out.err.kind = "HashingOutputMismatch") <=> (asg_env.finalize.len # 64)
        /\ asg_out.err.kind = "HashingOutputMismatch" =>
              (~asg_out.ok /\ asg_out.err.expected = 64
               /\ asg_out.err.actual = asg_env.finalize.len)

\* a 65-byte output is rejected
C11_Witness ==
    /\ ReachedFinalizeOk /\ asg_env.finalize.len = 65
    /\ asg_out.err.kind = "HashingOutputMismatch" /\ asg_out.err.actual = 65

(* C12: if check_privilege returns false the call returns PrivilegeRequired
   immediately: no timestamp read, memory capture, stack capture or hasher
   construction is performed, and the elapsed-time check is not applied. *)
C12_PrivilegeDeniedReturnsAtOnce ==
    (asg_called /\ ~asg_env.privilege) =>
        /\ ~asg_out.ok /\ asg_out.err.kind = "PrivilegeRequired"
        /\ asg_out.calls.check_privilege = 1
        /\ asg_out.calls.get_current_epoch_ns = 0
        /\ asg_out.calls.capture_volatile_memory = 0
        /\ asg_out.calls.capture_execution_stack = 0
        /\ asg_out.calls.new_hasher_fixed_output = 0
        /\ asg_out.calls.finalize = 0
        /\ asg_out.fed = <<>>

\* privilege denied in a call that also ran over the budget
C12_Witness ==
    /\ asg_called /\ ~asg_env.privilege /\ TooSlow(asg_env)
    /\ asg_out.err.kind = "PrivilegeRequired"

(* C13: with privilege granted, a failure of capture_volatile_memory returns
   MemoryCaptureFailed without hashing anything, and it is the only data-fetch
   step that can fail the call: no stack trace (an empty one included) causes
   an error. *)
C13_OnlyMemoryCaptureFails ==
    (asg_called /\ asg_env.privilege) =>
        /\ ~asg_env.memory.ok =>
              /\ ~asg_out.ok /\ asg_out.err.kind = "MemoryCaptureFailed"
              /\ asg_out.fed = <<>>
              /\ asg_out.calls.new_hasher_fixed_output = 0
              /\ asg_out.calls.finalize = 0
        /\ asg_out.err.kind = "MemoryCaptureFailed" => ~asg_env.memory.ok
        /\ (AllStepsSucceeded(asg_env) /\ ~TooSlow(asg_env)) =>
              (asg_out.ok /\ asg_out.pkg.stack_trace = asg_env.stack)

\* the capture failed although the hasher would have worked
C13_Witness ==
    /\ asg_called /\ asg_env.privilege /\ ~asg_env.memory.ok
    /\ asg_env.hasher_new_ok /\ asg_env.finalize.ok
    /\ asg_out.err.kind = "MemoryCaptureFailed"

-----------------------------------------------------------------------------
(* Scheduler claims *)

InitialArc == ArcNew(1, CompiledConstraintBlock(1))

(* C14: for every scheduler state and every id not in the cache,
   switch_active_set(id) returns MissingActiveSet and leaves the active set
   id, the active block reference and the cache contents unchanged. *)
C14_MissingSetLeavesStateUnchanged ==
    [][(dcsLast'.op = "switch_active_set" /\ dcsLast'.id \notin DOMAIN constraint_cache)
        => /\ dcsLast'.ret = "MissingActiveSet"
           /\ UNCHANGED <<active_set_id, active_block_ref, constraint_cache>>]_vars

\* a switch to an uncached id was refused after some inject
C14_Witness ==
    /\ dcsLast.op = "switch_active_set" /\ dcsLast.ret = "MissingActiveSet"
    /\ dcsLast.id \notin DOMAIN constraint_cache
    /\ nextArc > 2

(* C15: inject_compiled_set(id, block) inserts or overwrites only the cache
   entry for id: the active set id and the block returned by
   active_constraints are the same before and after, also when id is the
   active set, and every other cache entry is unchanged. *)
C15_InjectTouchesOneEntry ==
    [][(dcsLast'.op = "inject_compiled_set" /\ nextArc' # nextArc)
        => /\ UNCHANGED <<active_set_id, active_block_ref>>
           /\ DOMAIN constraint_cache' = DOMAIN constraint_cache \cup {dcsLast'.id}
           /\ \A k \in DOMAIN constraint_cache \ {dcsLast'.id} :
                    constraint_cache'[k] = constraint_cache[k]
           /\ constraint_cache'[dcsLast'.id].block
                = CompiledConstraintBlock(dcsLast'.version)]_vars

\* the entry of the active set was overwritten with another version
C15_Witness ==
    /\ dcsLast.op = "inject_compiled_set" /\ dcsLast.id = active_set_id
    /\ constraint_cache[active_set_id] # active_block_ref
    /\ dcsLast.version # active_constraints.compilation_version

(* C16: from initialize(a), after inject_compiled_set(b, block) and
   switch_active_set(b) with b # a, the switch returns Ok, active_constraints()
   is exactly block and set a still holds its version-1 block; no sequence of
   injects and switches ever removes a cache entry. *)
C16_ScenarioState ==
    /\ nextArc = 3
    /\ dcsLast.op = "switch_active_set"
    /\ dcsLast.id \in DOMAIN constraint_cache
    /\ constraint_cache[dcsLast.id].arc = 2
    /\ Cardinality(DOMAIN constraint_cache) = 2

C16_InjectThenSwitch ==
    /\ [](C16_ScenarioState =>
            /\ dcsLast.ret = "Ok"
            /\ active_set_id = dcsLast.id
            /\ active_block_ref = constraint_cache[dcsLast.id]
            /\ \E a \in DOMAIN constraint_cache \ {dcsLast.id} :
                    constraint_cache[a] = InitialArc)
    /\ [][/\ DOMAIN constraint_cache \subseteq DOMAIN constraint_cache'
          /\ (dcsLast'.op = "inject_compiled_set" /\ nextArc' # nextArc) =>
                constraint_cache'[dcsLast'.id]
                    = ArcNew(nextArc, CompiledConstraintBlock(dcsLast'.version))]_vars

\* set b was injected with version 2 and switched to
C16_Witness ==
    /\ C16_ScenarioState
    /\ active_constraints.compilation_version = 2
    /\ active_set_id = dcsLast.id

(* C17: whenever the active block has compilation_version 0, the integrity
   sweep returns PolicyViolation for every input data value: fail-closed. *)
C17_SweepFailsClosed ==
    (dcsLast.op = "execute_s02_s06_integrity_sweep"
        /\ active_constraints.compilation_version = 0)
    => dcsLast.ret = "PolicyViolation"

\* a version-0 block was injected and switched to; the sweep of an empty input fails
C17_Witness ==
    /\ dcsLast.op = "execute_s02_s06_integrity_sweep" /\ dcsLast.data = <<>>
    /\ active_constraints.compilation_version = 0
    /\ dcsLast.ret = "PolicyViolation"

\* what a reader with a live borrow has read so far
Reading(r) == readers[r].st # "idle"
ReadWhole(r) == readers[r].st = "read"

\* C18: around a successful switch_active_set every read sees one whole
\* block, the one active before the switch or the one cached under the new
\* id: both reads of a reader come from the same Arc, that Arc is the old or
\* the new one of the latest switch, and the id read next to it is the key
\* the Arc was cloned from.
C18_ReadersSeeOldOrNew ==
    \A r \in Readers : Reading(r) =>
        /\ readers[r].first \in {switch_call.old, switch_call.new}
        /\ readers[r].id = readers[r].origin
        /\ ReadWhole(r) => readers[r].second = readers[r].first

\* two readers hold borrows after a switch to a different Arc: one has read
\* the whole new block, the other is half-way
C18_Witness ==
    /\ switch_call.old # switch_call.new
    /\ dcsLast = DcsCall("switch_active_set", switch_call.new_set_id, 0, <<>>, "Ok")
    /\ \E r1, r2 \in Readers :
         /\ readers[r1].st = "read"
         /\ readers[r1].first = switch_call.new
         /\ readers[r2].st = "borrowed"

-----------------------------------------------------------------------------
(* Compiler Engine claims *)

IsPrefix(s, t) == Len(s) <= Len(t) /\ SubSeq(t, 1, Len(s)) = s
IsCompileDefinition(a) == a.task.kind = "CompileDefinition"
\* the CompileDefinition tasks the engine has taken, in the order it took them
Consumed == SelectSeq(dequeued, IsCompileDefinition)
JobAwaited == engine_pc = "compiling"
BodyRunning == engine_pc \in {"compiling", "send"}

\* C19: the engine takes tasks in arrival order, each once and one at a time
\* (what it has taken followed by what is queued is the arrival history);
\* each CompileDefinition taken gives one message with that task's set_id,
\* published before the next task is taken, in task order; while the
\* receiver is alive no message is lost, duplicated or reordered.
C19_FifoExactlyOnce ==
    /\ accepted = dequeued \o task_queue
    /\ BodyRunning => engine_task = dequeued[Len(dequeued)]
    /\ Len(published) = Len(Consumed) - (IF BodyRunning THEN 1 ELSE 0)
        \/ (engine_pc = "terminated" /\ ~result_receiver_alive
                /\ Len(published) = Len(Consumed) - 1)
    /\ \A i \in 1..Len(published) :
          /\ i <= Len(Consumed)
          /\ published[i].n = Consumed[i].n
          /\ published[i].set_id = Consumed[i].task.set_id
    /\ IsPrefix(delivered, published)
    /\ result_receiver_alive => published = delivered \o result_channel

\* two compile tasks for different sets arrived and the handle was dropped;
\* both results were delivered in task order and the engine stopped
C19_Witness ==
    /\ Len(accepted) = 2 /\ dequeued = accepted
    /\ Len(delivered) = 2
    /\ delivered[1].set_id = 2 /\ delivered[1].n = 1 /\ delivered[1].result.ok
    /\ delivered[2].set_id = 1 /\ delivered[2].n = 2 /\ ~delivered[2].result.ok
    /\ engine_pc = "terminated"

\* C20: a slow compile job does not hold up message processing: while the
\* job of task k is awaited, the engine can take task k+1 from a non-empty
\* queue, and earlier results waiting in the channel can be received.
C20_SlowJobDoesNotDelayDequeue ==
    /\ (JobAwaited /\ task_queue # <<>>)
            => ENABLED (engine_recv_compile \/ engine_recv_shutdown)
    /\ (JobAwaited /\ result_receiver_alive /\ result_channel # <<>>)
            => ENABLED result_recv

\* Result<CompiledConstraintBlock, ConstraintError> values the engine reports
EngineErr(kind) == [ok |-> FALSE, err |-> kind]
definition_of(a) == a.task.noir_bytecode_or_acvm_ir

\* C21: a failing job never stops the loop.  Every published result belongs
\* to its task: an empty definition is reported as an error, CompilationFailed
\* is reported only for an empty definition, the only other error is
\* ExternalDependencyFailure (the job's thread died); and the end of a job,
\* whatever its result, takes the engine to the send of (set_id, result),
\* from where it returns to recv() for the tasks queued behind.
C21_FailedJobKeepsLoopRunning ==
    /\ [](\A i \in 1..Len(published) :
            /\ is_empty(definition_of(Consumed[i])) => ~published[i].result.ok
            /\ ~published[i].result.ok =>
                  published[i].result \in {EngineErr("CompilationFailed"),
                                           EngineErr("ExternalDependencyFailure")}
            /\ published[i].result = EngineErr("CompilationFailed")
                  => is_empty(definition_of(Consumed[i])))
    /\ [][/\ (engine_pc = "compiling" /\ engine_pc' # "compiling") =>
                /\ engine_pc' = "send"
                /\ compilation_result' \in
                      {IF is_empty(definition_of(engine_task))
                          THEN EngineErr("CompilationFailed")
                          ELSE [ok |-> TRUE, block |-> CompiledConstraintBlock(3)],
                       EngineErr("ExternalDependencyFailure")}
          /\ (engine_pc = "send" /\ result_receiver_alive /\ engine_pc' # "send") =>
                /\ engine_pc' = "recv"
                /\ published' = Append(published,
                      ResultMessage(engine_task.task.set_id, compilation_result,
                                    engine_task.n))]_vars

\* an empty definition was reported as CompilationFailed, the task behind it
\* was taken, its job's thread died and that was reported too; the engine is
\* back at recv()
C21_Witness ==
    /\ Len(published) = 2
    /\ published[1].result = EngineErr("CompilationFailed")
    /\ published[2].result = EngineErr("ExternalDependencyFailure")
    /\ published[1].set_id # published[2].set_id
    /\ engine_pc = "recv"

EngineTerminated == engine_pc = "terminated"

\* C22: once the result receiver is dropped nothing more is published, the
\* engine's next attempt to publish ends the loop (so at most one task is
\* compiled without its result being published), and a terminated engine
\* takes no task from the queue and compiles nothing.
C22_ReceiverDroppedStopsEngine ==
    /\ [](~result_receiver_alive => Len(Consumed) <= Len(published) + 1)
    /\ [][/\ ~result_receiver_alive => published' = published
          /\ (~result_receiver_alive /\ engine_pc = "send" /\ engine_pc' # "send")
                => engine_pc' = "terminated"
          /\ EngineTerminated =>
                UNCHANGED <<engine_pc, engine_task, compilation_result,
                            task_queue, dequeued, published>>]_vars

\* the receiver was dropped, the publish of the first task's result failed,
\* and the second task is still in the queue of the terminated engine
C22_Witness ==
    /\ ~result_receiver_alive
    /\ EngineTerminated
    /\ Len(Consumed) = Len(published) + 1
    /\ task_queue # <<>>
    /\ IsCompileDefinition(Head(task_queue))

IsShutdown(a) == a.task.kind = "Shutdown"
ShutdownDequeued == dequeued # <<>> /\ IsShutdown(dequeued[Len(dequeued)])

\* C23: Shutdown is cooperative.  A Shutdown the engine has taken is the
\* last task it took, every task that arrived before it is a
\* CompileDefinition whose result was published, in order, before the loop
\* stopped; a job that is awaited is never cut short; and after the Shutdown
\* nothing more is taken from the queue or published.
C23_ShutdownBetweenJobs ==
    /\ [](\A i \in 1..Len(dequeued) : IsShutdown(dequeued[i]) =>
            /\ i = Len(dequeued)
            /\ EngineTerminated
            /\ Len(published) = i - 1
            /\ \A j \in 1..(i - 1) :
                  /\ IsCompileDefinition(accepted[j])
                  /\ published[j].n = accepted[j].n)
    /\ [][/\ JobAwaited => (engine_pc' \in {"compiling", "send"}
                              /\ engine_task' = engine_task)
          /\ ShutdownDequeued => UNCHANGED <<engine_pc, task_queue, dequeued, published>>]_vars

\* a CompileDefinition and then a Shutdown arrived; the result of the first
\* was published before the engine stopped on the second
C23_Witness ==
    /\ Len(accepted) = 2
    /\ IsCompileDefinition(accepted[1]) /\ IsShutdown(accepted[2])
    /\ ShutdownDequeued
    /\ Len(published) = 1 /\ published[1].n = 1
    /\ EngineTerminated

version_of(m) == m.result.block.compilation_version

\* C24: per constraint set id the versions of the blocks the compiler
\* produces increase strictly: of two successful results for the same set
\* the later one carries the larger compilation_version.
C24_VersionsIncreasePerSet ==
    \A i, j \in 1..Len(published) :
        (i < j /\ published[i].set_id = published[j].set_id
               /\ published[i].result.ok /\ published[j].result.ok)
        => version_of(published[i]) < version_of(published[j])

QueueFull == Len(task_queue) = task_buffer_size

-----------------------------------------------------------------------------
(* Claims across the subsystems *)

dequeued_numbers == {dequeued[i].n : i \in 1..Len(dequeued)}

\* C26: nothing is retried internally.  In a halt invocation each agent
\* operation is invoked at most once, also when it failed; a snapshot call
\* invokes capture_volatile_memory and the hasher constructor at most once;
\* the engine spawns the job of a task once: a task is taken once, and after
\* a job has ended the loop never goes back to compiling the same task.
C26_NoInternalRetry ==
    /\ [](/\ \A op \in AgentOps : agent[op].calls <= 1
          /\ asg_out.calls.capture_volatile_memory <= 1
          /\ asg_out.calls.new_hasher_fixed_output <= 1
          /\ \A i, j \in 1..Len(dequeued) : dequeued[i].n = dequeued[j].n => i = j)
    /\ [][/\ (engine_pc' = "compiling" /\ engine_pc # "compiling")
                => (engine_pc = "recv" /\ engine_task'.n \notin dequeued_numbers)
          /\ \A op \in AgentOps :
                (agent[op].st = "Done" => agent'[op] = agent[op])]_vars

\* isolation was invoked once, failed, and the sequence returned with the
\* other two operations never invoked
C26_Witness ==
    /\ Returned
    /\ OpFailed("isolation")
    /\ agent["isolation"].calls = 1
    /\ agent["sanitization"].calls = 0 /\ agent["forensics"].calls = 0

\* C27: compile_constraints is a function of its arguments alone.  Whatever
\* state the scheduler is in, the result is CompilationFailed when the
\* definition text or the policy text is empty and otherwise a block whose
\* compilation_version is the version argument; a call with the arguments
\* of the call before it returns the same result; and a call leaves the
\* scheduler as it was.
C27_CompileIsPure ==
    /\ [](compile_call.called =>
            compile_call.ret =
                IF compile_call.acvm_def = "" \/ compile_call.gax_policies = ""
                THEN [ok |-> FALSE, err |-> "CompilationFailed"]
                ELSE [ok |-> TRUE,
                      block |-> [compilation_version |-> compile_call.version,
                                 gax_ii_boundary_checks |-> <<>>,
                                 gax_iii_input_integrity |-> <<>>]])
    /\ [][/\ (compile_call.called /\ compile_call'.called
                /\ compile_call'.acvm_def = compile_call.acvm_def
                /\ compile_call'.gax_policies = compile_call.gax_policies
                /\ compile_call'.version = compile_call.version)
                    => compile_call'.ret = compile_call.ret
          /\ compile_call' # compile_call => UNCHANGED dcsVars]_vars

\* with a version-0 block active in the scheduler, a call with a non-empty
\* definition, an empty policy text and version 2 failed
C27_Witness ==
    /\ compile_call.called
    /\ compile_call.acvm_def # "" /\ compile_call.gax_policies = ""
    /\ compile_call.version = 2
    /\ ~compile_call.ret.ok
    /\ active_constraints.compilation_version = 0

PackageReturned == asg_called /\ asg_out.ok

Invoked == halt_pc # "Idle"
TerminalOutcome ==
    \/ halt_result = Ok
    \/ ~halt_result.ok /\ halt_result.err.kind \in
            {"IsolationFailed", "SanitizationFailed", "ForensicsFailed", "Timeout"}

\* C29: every invocation of execute_halt_sequence returns, also when an
\* agent operation never completes (only the clock and the timer are
\* assumed to make progress); it returns Ok or one of IsolationFailed,
\* SanitizationFailed, ForensicsFailed, Timeout; and once it has returned
\* the result stands and no agent operation is started any more.
C29_HaltSequenceTerminates ==
    /\ Invoked ~> Returned
    /\ [](Returned => TerminalOutcome)
    /\ [][Returned => UNCHANGED <<halt_pc, halt_result, agent, halt_log>>]_vars

\* isolation never completed; the invocation returned Timeout at the deadline
C29_Witness ==
    /\ Returned
    /\ agent["isolation"].st = "Running"
    /\ halt_result = Err(TimeoutErr(total_timeout_ms))
    /\ now = total_timeout_ms

\* C30: record_violation is called at most once per invocation, and only
\* for an isolation that succeeded with a measured duration strictly above
\* isolation_sla_ms; the entry names the policy, "Isolation" and that
\* duration.  No call when the duration is at or below the SLA, none when
\* isolation failed, none in the sanitization and forensics phase.
C30_ViolationOnlyForSlowIsolation ==
    /\ [](/\ Len(violations) <= 1
          /\ violations # <<>> =>
                /\ OpOk("isolation")
                /\ isolation_duration > isolation_sla_ms
                /\ violations[1] = [policy_id |-> policy.policy_id,
                                    component |-> "Isolation",
                                    duration_ms |-> isolation_duration]
          /\ (OpOk("isolation") /\ isolation_duration <= isolation_sla_ms)
                => violations = <<>>
          /\ OpFailed("isolation") => violations = <<>>)
    /\ [][violations' # violations => (halt_pc = "Isolating" /\ halt_pc' = "Phase2")]_vars

\* isolation succeeded after exactly isolation_sla_ms = 1 ms, both other
\* phases failed, and nothing was recorded
C30_Witness ==
    /\ Returned
    /\ isolation_sla_ms = 1
    /\ OpOk("isolation") /\ isolation_duration = 1
    /\ OpFailed("sanitization") /\ OpFailed("forensics")
    /\ violations = <<>>

ReturnedOk == Returned /\ halt_result = Ok

\* C31: execute_halt_sequence returns Ok only if isolation, sanitization and
\* forensics were each invoked (once) and each returned success before the
\* total timeout elapsed; a failed phase or an elapsed timeout is never
\* reported as success.
C31_OkOnlyIfAllPhasesOk ==
    /\ ReturnedOk =>
          /\ \A op \in AgentOps : agent[op].calls = 1 /\ OpOk(op)
          /\ now < total_timeout_ms
    /\ (Returned /\ \E op \in AgentOps : OpFailed(op)) => ~halt_result.ok
    /\ (Returned /\ \E op \in AgentOps : ~OpDone(op)) => ~halt_result.ok

\* all three operations succeeded one millisecond before the deadline
C31_Witness ==
    /\ ReturnedOk
    /\ \A op \in AgentOps : OpOk(op)
    /\ now = total_timeout_ms - 1
    /\ total_timeout_ms = MaxTimeout

\* the metadata the call serializes for the answers in env
MetadataOf(env) ==
    [capture_version |-> 1,
     absolute_capture_ts_epoch_ns |-> env.epoch_ns,
     context_flags |-> 66,
     hashing_protocol_id |-> 1,
     volatile_data_size |-> Len(env.memory.bytes)]

\* the failure conditions of one call in the order of precedence; the two
\* IntegrityHashingFailed causes are told apart by whether finalize was called
FirstFailure(env) ==
    IF ~env.privilege THEN <<"PrivilegeRequired", 0>>
    ELSE IF ~env.memory.ok THEN <<"MemoryCaptureFailed", 0>>
    ELSE IF ~env.hasher_new_ok THEN <<"IntegrityHashingFailed", 0>>
    ELSE IF ~to_canonical_bytes(MetadataOf(env)).ok THEN <<"MetadataEncodingFailed", 0>>
    ELSE IF ~env.finalize.ok THEN <<"IntegrityHashingFailed", 1>>
    ELSE IF env.finalize.len # 64 THEN <<"HashingOutputMismatch", 1>>
    ELSE IF TooSlow(env) THEN <<"Timeout", 1>>
    ELSE <<"None", 1>>

\* C32: a call reports exactly the first failure in the order PrivilegeRequired,
\* MemoryCaptureFailed, IntegrityHashingFailed (construction),
\* MetadataEncodingFailed, IntegrityHashingFailed (finalize),
\* HashingOutputMismatch, Timeout; a slow call with a wrong-length hash reports
\* HashingOutputMismatch, and Timeout is reported only when every other step
\* succeeded
C32_ErrorPrecedence ==
    asg_called =>
        /\ asg_out.err.kind = FirstFailure(asg_env)[1]
        /\ asg_out.calls.finalize = FirstFailure(asg_env)[2]
        /\ asg_out.ok <=> (FirstFailure(asg_env)[1] = "None")
        /\ (TooSlow(asg_env) /\ ReachedFinalizeOk /\ asg_env.finalize.len # 64)
              => asg_out.err.kind = "HashingOutputMismatch"
        /\ (asg_out.err.kind = "Timeout")
              => asg_env.privilege /\ AllStepsSucceeded(asg_env)

\* a call that is too slow and whose hash output has the wrong length reports
\* HashingOutputMismatch
C32_Witness ==
    /\ asg_called
    /\ asg_env.privilege /\ asg_env.memory.ok /\ asg_env.hasher_new_ok
    /\ asg_env.finalize.ok /\ asg_env.finalize.len = 65
    /\ TooSlow(asg_env)
    /\ asg_out.err.kind = "HashingOutputMismatch"
    /\ asg_out.err.actual = 65
    /\ ~asg_out.ok

\* a step of the engine task itself
EngineStep ==
    \/ engine_recv_compile
    \/ engine_recv_shutdown
    \/ engine_recv_none
    \/ \E outcome \in JobOutcomes : compile_job_done(outcome)
    \/ result_send
    \/ result_send_failed
\* the n-th accepted task is a CompileDefinition with no Shutdown before it
AheadOfShutdown(n) ==
    /\ Len(accepted) >= n
    /\ IsCompileDefinition(accepted[n])
    /\ \A i \in 1..(n - 1) : ~IsShutdown(accepted[i])
ResultPublished(n) == \E i \in 1..Len(published) : published[i].n = n
\* the engine has work or its senders are gone, and it cannot take a step
EngineBlocked ==
    /\ ~EngineTerminated
    /\ task_queue # <<>> \/ BodyRunning \/ ~handle_alive
    /\ ~ENABLED EngineStep

\* C33: under fair scheduling of the engine and of a result receiver that
\* keeps receiving, every CompileDefinition accepted ahead of any Shutdown
\* eventually has its result published unless the receiver is dropped; once
\* every sender is dropped and the queue is drained the engine loop
\* terminates; and the engine is blocked only in its send on a result channel
\* that is full while the receiver is alive
C33_PipelineLiveness ==
    /\ \A n \in 1..MaxTasks :
          AheadOfShutdown(n) ~> (ResultPublished(n) \/ ~result_receiver_alive)
    /\ (~handle_alive /\ task_queue = <<>>) ~> EngineTerminated
    /\ [](EngineBlocked =>
            /\ engine_pc = "send"
            /\ result_receiver_alive
            /\ Len(result_channel) = result_buffer_size)

\* two CompileDefinitions were accepted and no Shutdown, both results were
\* published to a receiver that is still there, and the loop ended after the
\* senders were dropped and the queue was drained
C33_Witness ==
    /\ Len(accepted) >= 2
    /\ \A i \in 1..Len(accepted) : IsCompileDefinition(accepted[i])
    /\ \A i \in 1..Len(accepted) : ResultPublished(i)
    /\ result_receiver_alive
    /\ ~handle_alive /\ task_queue = <<>>
    /\ EngineTerminated

policies_of(a) == a.task.gax_policies
\* the job's closure returned: the result is not the one unwrap_or_else
\* substitutes for a JoinError
JobReturned(m) == m.result # EngineErr("ExternalDependencyFailure")

\* C34: the result the engine publishes for a CompileDefinition whose job
\* returned is decided by the definition text alone: CompilationFailed exactly
\* when the definition is empty and the successful block otherwise, the same
\* for every policy text; for a non-empty definition with an empty policy text
\* the engine publishes Ok although compile_constraints on these inputs fails
C34_EngineIgnoresPolicies ==
    \A i \in 1..Len(published) :
        /\ published[i].n = Consumed[i].n
        /\ JobReturned(published[i]) =>
              /\ (published[i].result = EngineErr("CompilationFailed"))
                    <=> is_empty(definition_of(Consumed[i]))
              /\ published[i].result.ok <=> ~is_empty(definition_of(Consumed[i]))
              /\ published[i].result.ok =>
                    published[i].result = [ok |-> TRUE, block |-> CompiledConstraintBlock(3)]
              /\ \A j \in 1..Len(published) :
                    (JobReturned(published[j])
                       /\ definition_of(Consumed[j]) = definition_of(Consumed[i]))
                    => published[j].result = published[i].result
              /\ (~is_empty(definition_of(Consumed[i])) /\ is_empty(policies_of(Consumed[i])))
                    => /\ published[i].result.ok
                       /\ ~compile_constraints(definition_of(Consumed[i]),
                                               policies_of(Consumed[i]), 3).ok

\* the same definition was compiled once with a policy text and once with an
\* empty one: both results are the successful block, and compile_constraints
\* rejects the inputs of the second
C34_Witness ==
    /\ Len(published) = 2
    /\ definition_of(Consumed[1]) = definition_of(Consumed[2])
    /\ ~is_empty(policies_of(Consumed[1]))
    /\ is_empty(policies_of(Consumed[2]))
    /\ published[1].result.ok /\ published[2].result = published[1].result
    /\ compile_constraints(definition_of(Consumed[1]), policies_of(Consumed[1]), 3).ok
    /\ ~compile_constraints(definition_of(Consumed[2]), policies_of(Consumed[2]), 3).ok

SweepReturned == dcsLast.op = "execute_s02_s06_integrity_sweep"

\* C35: the sweep's result is decided by the active block's
\* compilation_version alone: PolicyViolation if and only if the version is
\* 0, Ok for every input value when it is not; and a sweep leaves the active
\* set id, the active block reference and the cache as they were
C35_SweepDependsOnVersionOnly ==
    /\ [](SweepReturned =>
            /\ dcsLast.ret \in {"PolicyViolation", "Ok"}
            /\ (dcsLast.ret = "PolicyViolation")
                  <=> (active_constraints.compilation_version = 0)
            /\ (active_constraints.compilation_version # 0) => dcsLast.ret = "Ok")
    /\ [][(dcsLast'.op = "execute_s02_s06_integrity_sweep")
            => UNCHANGED <<active_set_id, active_block_ref, constraint_cache>>]_vars

\* with a block of non-zero version active, the sweep of the input 0xFF
\* returned Ok after a set had been injected and switched to
C35_Witness ==
    /\ SweepReturned
    /\ dcsLast.data = <<255>>
    /\ active_constraints.compilation_version = MaxVersion
    /\ dcsLast.ret = "Ok"
    /\ active_block_ref # InitialArc


====
